---- MODULE Spec2Model ----
(***************************************************************************)
(* Model of VtsComposerClient (graphics/composer/aidl/vts): the display /  *)
(* layer resource registry mDisplayResources, the batched and unbatched    *)
(* layer lifecycle, display discovery and the teardown drain.              *)
(*                                                                         *)
(* The remote composer service (IComposerClient) and the callback object   *)
(* (GraphicsComposerCallback) are collaborators: every call to them is a   *)
(* nondeterministic choice of the status it returns and of the value it    *)
(* reports.  A single driver thread calls the client; pc is its position.  *)
(***************************************************************************)
EXTENDS Integers, Sequences, FiniteSets, TLC

\* ------------------------------------------------------------------ bounds
\* layer ids 1..MaxLayerId: the ids the service assigns, the ids a caller
\* names, and the cap on the local layer id generator
MaxLayerId == 2
\* the records a writer is let to hold before the driver executes them
MaxWriterLen == 3
\* display ids are opaque; two of them
DisplayIds == {1, 2}
LayerIds == 1..MaxLayerId
BufferSlotCounts == {2}
\* the first id the local layer id generator hands out
FirstLayerHandle == 1
\* getDisplayConfigurations is supported starting interface version 3
ExtendedConfigVersion == 3
\* the versions the service may answer a getInterfaceVersion call with
InterfaceVersions == {ExtendedConfigVersion - 1, ExtendedConfigVersion}
\* the places that ask getDisplayConfigurationSupported, by the function they
\* are in; each asking is a getInterfaceVersion call of its own
Gates == {"getDisplays", "getDisplayConfigs", "updateDisplayProperties"}

\* ---------------------------------------------------------------- statuses
StatusOk == "OK"
\* statuses the remote service may answer a failing call with
RemoteErrors == {"EX_NO_RESOURCES", "EX_UNSUPPORTED"}
RemoteStatuses == {StatusOk} \cup RemoteErrors
\* statuses the client produces itself
EX_BAD_DISPLAY == "EX_BAD_DISPLAY"
EX_BAD_LAYER == "EX_BAD_LAYER"
EX_BAD_CONFIG == "EX_BAD_CONFIG"

\* the capability that turns batched layer lifecycle on
LAYER_LIFECYCLE_BATCH_COMMAND == "LAYER_LIFECYCLE_BATCH_COMMAND"
Capabilities == {LAYER_LIFECYCLE_BATCH_COMMAND, "SKIP_VALIDATE"}

\* the anomalous-event counters verifyComposerCallbackParams reads
InvalidKinds == {"hotplug", "refresh", "vsync", "vsyncPeriodChange",
                 "seamlessPossible", "refreshRateDebug"}

\* the display lists the callback may report: no id twice
DisplayLists ==
    {<<>>} \cup {<<d>> : d \in DisplayIds}
           \cup {<<p[1], p[2]>> : p \in {q \in DisplayIds \X DisplayIds : q[1] # q[2]}}

\* what the service may report during discovery
ConfigIds == {0, 1}
ConfigLists == {<<1>>, <<0, 1>>}
\* the config ids the service may name as the active one: 7 is in no list
ActiveConfigs == ConfigIds \cup {7}
Attributes == {"WIDTH", "HEIGHT", "VSYNC_PERIOD", "CONFIG_GROUP"}
Dimensions == {-1, 2}
AttrStatuses == {StatusOk, "EX_UNSUPPORTED"}

VARIABLES
    mSupportsBatchedCreateLayer, \* set once by the constructor
    mNextLayerHandle,            \* local layer id generator (batched mode)
    mDisplayResources,           \* display id -> [isVirtual, layers]
    mComposerCallback,           \* "null" until createClient registers the callback
    pc,                          \* position of the driver thread
    physicalDisplays,            \* destroyAllLayers: set-aside physical displays
    it,                          \* destroyAllLayers: {display the drain is at}, or {}
    displays,                    \* getDisplays: the polled display ids
    vtsDisplays,                 \* getDisplays: the displays resolved so far
    issued,                      \* what the current/last operation sent out, in order:
                                 \* remote calls, and records appended to the writer
    lastCall,                    \* the current/last operation, its arguments and result
    entry,                       \* mDisplayResources when that operation was entered
    writer                       \* the records pending in the driver's writer

vars == <<mSupportsBatchedCreateLayer, mNextLayerHandle, mDisplayResources,
          mComposerCallback, pc, physicalDisplays, it, displays, vtsDisplays,
          issued, lastCall, entry, writer>>

\* ------------------------------------------------------- registry helpers
EmptyResources == [d \in {} |-> [isVirtual |-> FALSE, layers |-> {}]]

DisplayResource(isVirtual) == [isVirtual |-> isVirtual, layers |-> {}]

\* std::unordered_map: insert of a new key, erase of a key, clear
MapInsert(map, display, resource) ==
    [d \in DOMAIN map \cup {display} |-> IF d = display THEN resource ELSE map[d]]

MapErase(map, display) == [d \in DOMAIN map \ {display} |-> map[d]]

MapClear(map) == [d \in {} |-> map[d]]

\* mutant: an entry that is already there is emptied of its layers
addDisplayResetting(reg, display, isVirtual) ==
    IF display \notin DOMAIN reg
    THEN [reg |-> MapInsert(reg, display, DisplayResource(isVirtual)),
          status |-> StatusOk]
    ELSE [reg |-> [reg EXCEPT ![display].layers = {}],
          status |-> EX_BAD_DISPLAY]

\* mutant: an entry that is already there takes the new classification
addDisplayReclassifying(reg, display, isVirtual) ==
    IF display \notin DOMAIN reg
    THEN [reg |-> MapInsert(reg, display, DisplayResource(isVirtual)),
          status |-> StatusOk]
    ELSE [reg |-> [reg EXCEPT ![display].isVirtual = isVirtual],
          status |-> EX_BAD_DISPLAY]

\* mutant: the insert overwrites an entry that is already there
addDisplayOverwriting(reg, display, isVirtual) ==
    [reg |-> MapInsert(reg, display, DisplayResource(isVirtual)),
     status |-> IF display \notin DOMAIN reg THEN StatusOk ELSE EX_BAD_DISPLAY]

addDisplayToDisplayResources(reg, display, isVirtual) ==
    IF display \notin DOMAIN reg
    THEN [reg |-> MapInsert(reg, display, DisplayResource(isVirtual)),
          status |-> StatusOk]
    ELSE [reg |-> reg, status |-> EX_BAD_DISPLAY]

\* mutant: the entry made for an unknown display is marked virtual
addLayerVirtualPlaceholder(reg, display, layer) ==
    LET found == IF display \in DOMAIN reg
                 THEN reg
                 ELSE MapInsert(reg, display, DisplayResource(TRUE))
    IN  IF layer \notin found[display].layers
        THEN [reg |-> [found EXCEPT ![display].layers = @ \cup {layer}],
              status |-> StatusOk]
        ELSE [reg |-> found, status |-> EX_BAD_LAYER]

\* mutant: the result of the insert into the layer set is not looked at
addLayerUnchecked(reg, display, layer) ==
    LET found == IF display \in DOMAIN reg
                 THEN reg
                 ELSE MapInsert(reg, display, DisplayResource(FALSE))
    IN  [reg |-> [found EXCEPT ![display].layers = @ \cup {layer}],
         status |-> StatusOk]

addLayerToDisplayResources(reg, display, layer) ==
    LET found == IF display \in DOMAIN reg
                 THEN reg
                 ELSE MapInsert(reg, display, DisplayResource(FALSE))
    IN  IF layer \notin found[display].layers
        THEN [reg |-> [found EXCEPT ![display].layers = @ \cup {layer}],
              status |-> StatusOk]
        ELSE [reg |-> found, status |-> EX_BAD_LAYER]

\* mutant: the layer id is dropped from every display's set
removeLayerEverywhere(reg, display, layer) ==
    [d \in DOMAIN reg |-> [reg[d] EXCEPT !.layers = @ \ {layer}]]

\* mutant: an unknown display is given an entry, as addLayer gives it one
removeLayerWithPlaceholder(reg, display, layer) ==
    IF display \in DOMAIN reg
    THEN [reg EXCEPT ![display].layers = @ \ {layer}]
    ELSE MapInsert(reg, display, DisplayResource(FALSE))

\* mutant: the layer is looked up and left in place
removeLayerForgotten(reg, display, layer) == reg

removeLayerFromDisplayResources(reg, display, layer) ==
    IF display \in DOMAIN reg
    THEN [reg EXCEPT ![display].layers = @ \ {layer}]
    ELSE reg

\* ------------------------------------------------------- records and logs
\* a remote call the client made, with the status the service answered
RemoteCall(fn, display, layer, status) ==
    [kind |-> "remote", fn |-> fn, display |-> display, layer |-> layer,
     status |-> status, arg |-> <<>>]

\* a record the client appended to the writer it was handed
Record(type, display, layer, arg) ==
    [kind |-> "record", fn |-> type, display |-> display, layer |-> layer,
     status |-> "PENDING", arg |-> arg]

\* an operation of the client: its name, arguments, returned status and value
\* (0 where an operation has no such argument)
Op(op, display, layer, status, value) ==
    [op |-> op, display |-> display, layer |-> layer, status |-> status,
     value |-> value]

RemoteCalls(log) == SelectSeq(log, LAMBDA c : c.kind = "remote")
Records(log) == SelectSeq(log, LAMBDA c : c.kind = "record")

\* ------------------------------------------------------------ construction
\* mutant: any capability at all switches batching on
supportsBatchedCreateLayerAny(capabilities) == capabilities # {}

\* the constructor's std::any_of over the capability list
supportsBatchedCreateLayer(capabilities) ==
    LAYER_LIFECYCLE_BATCH_COMMAND \in capabilities

\* VtsComposerClient::VtsComposerClient: the batched flag is read off the
\* capability list once; nothing is registered and no client session exists yet
Init ==
    /\ \E capabilities \in SUBSET Capabilities :
          /\ mSupportsBatchedCreateLayer = supportsBatchedCreateLayer(capabilities)
          /\ lastCall = Op("construct", 0, 0, StatusOk, capabilities)
    /\ mNextLayerHandle = FirstLayerHandle
    /\ mDisplayResources = EmptyResources
    /\ mComposerCallback = "null"
    /\ pc = "idle"
    /\ physicalDisplays = EmptyResources
    /\ it = {}
    /\ displays = <<>>
    /\ vtsDisplays = <<>>
    /\ issued = <<>>
    /\ entry = EmptyResources
    /\ writer = <<>>

\* what no operation of the client assigns after construction
Fixed == <<mSupportsBatchedCreateLayer>>
\* locals of destroyAllLayers and getDisplays
Locals == <<physicalDisplays, it, displays, vtsDisplays>>

\* the writer the driver holds when a call that was handed it has returned:
\* the driver executes the pending commands and resets the writer at once
\* (flush), or keeps it for the next call
writerReturned(pending, flush) == IF flush THEN <<>> ELSE pending

\* the (display, layer) pairs of the registry
LayerPairs(reg) == {p \in (DOMAIN reg) \X LayerIds : p[2] \in reg[p[1]].layers}

\* the driver thread is between operations and holds a client session
Idle == pc = "idle" /\ mComposerCallback # "null"

\* VtsComposerClient::createClient
createClient ==
    /\ pc = "idle"
    /\ mComposerCallback = "null"
    /\ \E status \in RemoteStatuses, registered \in RemoteStatuses :
          IF status # StatusOk
          THEN /\ mComposerCallback' = "null"
               /\ issued' = <<RemoteCall("createClient", 0, 0, status)>>
               /\ lastCall' = Op("createClient", 0, 0, status, 0)
          ELSE /\ mComposerCallback' = "set"
               /\ issued' = <<RemoteCall("createClient", 0, 0, status),
                              RemoteCall("registerCallback", 0, 0, registered)>>
               /\ lastCall' = Op("createClient", 0, 0, registered, 0)
    /\ entry' = mDisplayResources
    /\ UNCHANGED <<Fixed, writer, Locals, mNextLayerHandle, mDisplayResources, pc>>

\* VtsComposerClient::createVirtualDisplay; outDisplay is the id the service
\* assigned
createVirtualDisplay ==
    /\ Idle
    /\ \E status \in RemoteStatuses, outDisplay \in DisplayIds :
          LET added == addDisplayToDisplayResources(mDisplayResources, outDisplay, TRUE)
          IN  /\ issued' = <<RemoteCall("createVirtualDisplay", outDisplay, 0, status)>>
              /\ IF status # StatusOk
                 THEN /\ mDisplayResources' = mDisplayResources
                      /\ lastCall' = Op("createVirtualDisplay", outDisplay, 0, status, 0)
                 ELSE /\ mDisplayResources' = added.reg
                      /\ lastCall' = Op("createVirtualDisplay", outDisplay, 0,
                                        added.status, 0)
    /\ entry' = mDisplayResources
    /\ UNCHANGED <<Fixed, writer, Locals, mNextLayerHandle, pc, mComposerCallback>>

\* mutant: the entry is erased whatever the service answered
destroyVirtualDisplayEager(reg, display, status) ==
    [reg |-> MapErase(reg, display),
     status |-> status,
     issued |-> <<RemoteCall("destroyVirtualDisplay", display, 0, status)>>]

\* VtsComposerClient::destroyVirtualDisplay, as a function of the remote status:
\* the registry, the status returned and what was sent out
destroyVirtualDisplayResult(reg, display, status) ==
    [reg |-> IF status # StatusOk THEN reg ELSE MapErase(reg, display),
     status |-> status,
     issued |-> <<RemoteCall("destroyVirtualDisplay", display, 0, status)>>]

destroyVirtualDisplay(display) ==
    /\ Idle
    /\ \E status \in RemoteStatuses :
          LET r == destroyVirtualDisplayResult(mDisplayResources, display, status)
          IN  /\ mDisplayResources' = r.reg
              /\ issued' = r.issued
              /\ lastCall' = Op("destroyVirtualDisplay", display, 0, r.status, 0)
    /\ entry' = mDisplayResources
    /\ UNCHANGED <<Fixed, writer, Locals, mNextLayerHandle, pc, mComposerCallback>>

\* mutant: the buffer slot count is set before the layer is created
createLayerBatchedSlotsFirst(reg, nextLayerHandle, display, bufferSlotCount) ==
    LET layer == nextLayerHandle
        added == addLayerToDisplayResources(reg, display, layer)
    IN  [reg |-> added.reg,
         nextLayerHandle |-> nextLayerHandle + 1,
         layer |-> layer,
         status |-> added.status,
         issued |-> <<Record("BUFFER_SLOT_COUNT", display, layer,
                             <<bufferSlotCount>>),
                      Record("CREATE", display, layer, <<>>)>>]

\* mutant: the generator is read and not advanced
createLayerBatchedStuck(reg, nextLayerHandle, display, bufferSlotCount) ==
    LET layer == nextLayerHandle
        added == addLayerToDisplayResources(reg, display, layer)
    IN  [reg |-> added.reg,
         nextLayerHandle |-> nextLayerHandle,
         layer |-> layer,
         status |-> added.status,
         issued |-> <<Record("CREATE", display, layer, <<>>),
                      Record("BUFFER_SLOT_COUNT", display, layer,
                             <<bufferSlotCount>>)>>]

\* mutant: the generator hands out the id below the one it holds
createLayerBatchedBehind(reg, nextLayerHandle, display, bufferSlotCount) ==
    LET layer == nextLayerHandle - 1
        added == addLayerToDisplayResources(reg, display, layer)
    IN  [reg |-> added.reg,
         nextLayerHandle |-> nextLayerHandle + 1,
         layer |-> layer,
         status |-> added.status,
         issued |-> <<Record("CREATE", display, layer, <<>>),
                      Record("BUFFER_SLOT_COUNT", display, layer,
                             <<bufferSlotCount>>)>>]

\* VtsComposerClient::createLayer, batched branch, as a function of the
\* registry and the generator: the two afterwards, the layer and status
\* returned, and what was sent out
createLayerBatched(reg, nextLayerHandle, display, bufferSlotCount) ==
    LET layer == nextLayerHandle
        added == addLayerToDisplayResources(reg, display, layer)
    IN  [reg |-> added.reg,
         nextLayerHandle |-> nextLayerHandle + 1,
         layer |-> layer,
         status |-> added.status,
         issued |-> <<Record("CREATE", display, layer, <<>>),
                      Record("BUFFER_SLOT_COUNT", display, layer,
                             <<bufferSlotCount>>)>>]

\* mutant: the layer is registered whatever the service answered
createLayerUnbatchedEager(reg, nextLayerHandle, display, status, outLayer) ==
    LET added == addLayerToDisplayResources(reg, display, outLayer)
    IN  [reg |-> added.reg,
         nextLayerHandle |-> nextLayerHandle,
         layer |-> outLayer,
         status |-> IF status # StatusOk THEN status ELSE added.status,
         issued |-> <<RemoteCall("createLayer", display, outLayer, status)>>]

\* VtsComposerClient::createLayer, synchronous branch, as a function of what the
\* service answered. outLayer is what the caller finds in the out-parameter:
\* the id the service wrote, or whatever the uninitialized local held when the
\* call failed
createLayerUnbatched(reg, nextLayerHandle, display, status, outLayer) ==
    LET added == addLayerToDisplayResources(reg, display, outLayer)
    IN  [reg |-> IF status # StatusOk THEN reg ELSE added.reg,
         nextLayerHandle |-> nextLayerHandle,
         layer |-> outLayer,
         status |-> IF status # StatusOk THEN status ELSE added.status,
         issued |-> <<RemoteCall("createLayer", display, outLayer, status)>>]

createLayer(display, bufferSlotCount, flush) ==
    /\ Idle
    /\ mSupportsBatchedCreateLayer => mNextLayerHandle <= MaxLayerId
    /\ mSupportsBatchedCreateLayer => Len(writer) + 2 <= MaxWriterLen
    /\ \E status \in RemoteStatuses, outLayer \in LayerIds :
          LET r == IF mSupportsBatchedCreateLayer
                   THEN createLayerBatched(mDisplayResources, mNextLayerHandle,
                                           display, bufferSlotCount)
                   ELSE createLayerUnbatched(mDisplayResources, mNextLayerHandle,
                                             display, status, outLayer)
          IN  /\ mDisplayResources' = r.reg
              /\ mNextLayerHandle' = r.nextLayerHandle
              /\ issued' = r.issued
              /\ writer' = writerReturned(writer \o Records(r.issued), flush)
              /\ lastCall' = Op("createLayer", display, 0, r.status, r.layer)
    /\ entry' = mDisplayResources
    /\ UNCHANGED <<Fixed, Locals, pc, mComposerCallback>>

\* mutant: in batched mode a layer its display does not own is refused
destroyLayerChecked(reg, display, layer, status) ==
    IF mSupportsBatchedCreateLayer
    THEN IF display \in DOMAIN reg /\ layer \in reg[display].layers
         THEN [reg |-> removeLayerFromDisplayResources(reg, display, layer),
               status |-> StatusOk,
               issued |-> <<Record("DESTROY", display, layer, <<>>)>>]
         ELSE [reg |-> reg, status |-> EX_BAD_LAYER, issued |-> <<>>]
    ELSE [reg |-> IF status # StatusOk
                  THEN reg
                  ELSE removeLayerFromDisplayResources(reg, display, layer),
          status |-> status,
          issued |-> <<RemoteCall("destroyLayer", display, layer, status)>>]

\* mutant: a destroy that succeeded leaves the layer with its display
destroyLayerKeeping(reg, display, layer, status) ==
    IF mSupportsBatchedCreateLayer
    THEN [reg |-> reg,
          status |-> StatusOk,
          issued |-> <<Record("DESTROY", display, layer, <<>>)>>]
    ELSE [reg |-> reg,
          status |-> status,
          issued |-> <<RemoteCall("destroyLayer", display, layer, status)>>]

\* mutant: ownership is dropped before the remote status is looked at
destroyLayerEager(reg, display, layer, status) ==
    IF mSupportsBatchedCreateLayer
    THEN [reg |-> removeLayerFromDisplayResources(reg, display, layer),
          status |-> StatusOk,
          issued |-> <<Record("DESTROY", display, layer, <<>>)>>]
    ELSE [reg |-> removeLayerFromDisplayResources(reg, display, layer),
          status |-> status,
          issued |-> <<RemoteCall("destroyLayer", display, layer, status)>>]

\* VtsComposerClient::destroyLayer, as a function of the remote status (read in
\* the synchronous branch only): the registry, the status returned and what
\* was sent out
destroyLayerResult(reg, display, layer, status) ==
    IF mSupportsBatchedCreateLayer
    THEN [reg |-> removeLayerFromDisplayResources(reg, display, layer),
          status |-> StatusOk,
          issued |-> <<Record("DESTROY", display, layer, <<>>)>>]
    ELSE [reg |-> IF status # StatusOk
                  THEN reg
                  ELSE removeLayerFromDisplayResources(reg, display, layer),
          status |-> status,
          issued |-> <<RemoteCall("destroyLayer", display, layer, status)>>]

destroyLayer(display, layer, flush) ==
    /\ Idle
    /\ mSupportsBatchedCreateLayer => Len(writer) + 1 <= MaxWriterLen
    /\ \E status \in RemoteStatuses :
          LET r == destroyLayerResult(mDisplayResources, display, layer, status)
          IN  /\ mDisplayResources' = r.reg
              /\ issued' = r.issued
              /\ writer' = writerReturned(writer \o Records(r.issued), flush)
              /\ lastCall' = Op("destroyLayer", display, layer, r.status, 0)
    /\ entry' = mDisplayResources
    /\ UNCHANGED <<Fixed, Locals, mNextLayerHandle, pc, mComposerCallback>>

\* VtsComposerClient::executeCommands, called by the driver with the commands
\* its writer holds; the driver resets the writer afterwards
executeCommands ==
    /\ Idle
    /\ writer # <<>>
    /\ \E status \in RemoteStatuses :
          /\ issued' = <<RemoteCall("executeCommands", 0, 0, status)>>
          /\ lastCall' = Op("executeCommands", 0, 0, status, Len(writer))
    /\ writer' = <<>>
    /\ entry' = mDisplayResources
    /\ UNCHANGED <<Fixed, Locals, mNextLayerHandle, mDisplayResources, pc,
                   mComposerCallback>>

\* ---------------------------------------------------------------- teardown
\* VtsComposerClient::verifyComposerCallbackParams, given the counters of the
\* callback that read non-zero
verifyComposerCallbackParams(nonZero) ==
    mComposerCallback # "null" => \A k \in InvalidKinds : k \notin nonZero

\* the end of destroyAllLayers:
\* mDisplayResources.swap(physicalDisplays); mDisplayResources.clear()
swapAndClear(reg, physical) == MapClear(physical)

\* mutant: an aborted drain puts the set-aside displays back
abortedResourcesRestoring(reg, physical) ==
    [d \in DOMAIN reg \cup DOMAIN physical |->
        IF d \in DOMAIN reg THEN reg[d] ELSE physical[d]]

\* destroyAllLayers, return false: mDisplayResources stays as the drain has
\* left it, and the set-aside displays go away with the local that holds them
abortedResources(reg, physical) == reg

\* destroyAllLayers returns: its locals go away
drainReturn(result) ==
    /\ pc' = "idle"
    /\ physicalDisplays' = EmptyResources
    /\ it' = {}
    /\ lastCall' = Op("tearDown", 0, 0, result, lastCall.value)

\* VtsComposerClient::tearDown up to the head of the drain: the callback check,
\* whose failure short-circuits destroyAllLayers
tearDown ==
    /\ pc = "idle"
    /\ mSupportsBatchedCreateLayer =>
          Len(writer) + Cardinality(LayerPairs(mDisplayResources)) <= MaxWriterLen
    /\ entry' = mDisplayResources
    /\ issued' = <<>>
    /\ \E nonZero \in SUBSET InvalidKinds :
          LET anomalous == mComposerCallback # "null" /\ nonZero # {}
          IN  IF verifyComposerCallbackParams(nonZero)
              THEN /\ pc' = "drain"
                   /\ lastCall' = Op("tearDown", 0, 0, "running", anomalous)
              ELSE /\ pc' = "idle"
                   /\ lastCall' = Op("tearDown", 0, 0, "false", anomalous)
    /\ UNCHANGED <<Fixed, writer, Locals, mNextLayerHandle, mDisplayResources,
                   mComposerCallback>>

\* mutant: the inner loop is skipped
layersDrainedAlways(display) == TRUE

\* destroyAllLayers, the condition that ends the inner loop
layersDrained(display) == mDisplayResources[display].layers = {}

\* mutant: a failed destroy does not end the drain
destroyFailedNever(status) == FALSE

\* destroyAllLayers, !status.isOk(): the condition that makes the drain return
\* false
destroyFailed(status) == status # StatusOk

\* mutant: every display is taken for a virtual one
resourceIsVirtualAlways(display) == TRUE

\* destroyAllLayers, resource.isVirtual of the display the drain is at
resourceIsVirtual(display) == mDisplayResources[display].isVirtual

\* destroyAllLayers, head of the outer loop with displays left: take begin()
\* of the unordered map, whichever entry that is
drainBegin ==
    /\ pc = "drain"
    /\ DOMAIN mDisplayResources # {}
    /\ \E display \in DOMAIN mDisplayResources : it' = {display}
    /\ pc' = "layers"
    /\ UNCHANGED <<Fixed, writer, mNextLayerHandle, mDisplayResources, physicalDisplays,
                   displays, vtsDisplays, mComposerCallback, issued, lastCall, entry>>

\* destroyAllLayers, one iteration of the inner loop: destroy begin() of the
\* current display's layers, whichever layer that is
drainLayer(flush) ==
    /\ pc = "layers"
    /\ \E display \in it :
          /\ ~layersDrained(display)
          /\ \E layer \in mDisplayResources[display].layers,
                status \in RemoteStatuses :
                LET r == destroyLayerResult(mDisplayResources, display, layer, status)
                IN  /\ mDisplayResources' =
                          IF destroyFailed(r.status)
                          THEN abortedResources(r.reg, physicalDisplays)
                          ELSE r.reg
                    /\ issued' = issued \o r.issued
                    /\ IF destroyFailed(r.status)
                       THEN /\ drainReturn("false")
                            /\ writer' = writerReturned(writer \o Records(r.issued),
                                                        flush)
                       ELSE /\ writer' = writer \o Records(r.issued)
                            /\ UNCHANGED <<pc, physicalDisplays, it, lastCall>>
    /\ UNCHANGED <<Fixed, mNextLayerHandle, displays, vtsDisplays,
                   mComposerCallback, entry>>

\* destroyAllLayers, after the inner loop: destroy a virtual display, set a
\* physical one aside
drainDisplay(flush) ==
    /\ pc = "layers"
    /\ \E display \in it :
          /\ layersDrained(display)
          /\ IF resourceIsVirtual(display)
             THEN \E status \in RemoteStatuses :
                     LET r == destroyVirtualDisplayResult(mDisplayResources,
                                                          display, status)
                     IN  /\ mDisplayResources' =
                               IF destroyFailed(r.status)
                               THEN abortedResources(r.reg, physicalDisplays)
                               ELSE r.reg
                         /\ issued' = issued \o r.issued
                         /\ IF destroyFailed(r.status)
                            THEN /\ drainReturn("false")
                                 /\ writer' = writerReturned(writer, flush)
                            ELSE /\ pc' = "drain"
                                 /\ it' = {}
                                 /\ UNCHANGED <<physicalDisplays, lastCall, writer>>
             ELSE /\ physicalDisplays' = MapInsert(physicalDisplays, display,
                                                   mDisplayResources[display])
                  /\ mDisplayResources' = MapErase(mDisplayResources, display)
                  /\ pc' = "drain"
                  /\ it' = {}
                  /\ UNCHANGED <<issued, lastCall, writer>>
    /\ UNCHANGED <<Fixed, mNextLayerHandle, displays, vtsDisplays,
                   mComposerCallback, entry>>

\* destroyAllLayers, the registry has run empty: swap, clear, return true
drainFinish(flush) ==
    /\ pc = "drain"
    /\ DOMAIN mDisplayResources = {}
    /\ mDisplayResources' = swapAndClear(mDisplayResources, physicalDisplays)
    /\ drainReturn("true")
    /\ writer' = writerReturned(writer, flush)
    /\ UNCHANGED <<Fixed, mNextLayerHandle, displays, vtsDisplays,
                   mComposerCallback, issued, entry>>

\* ---------------------------------------------------------------- discovery
\* VtsDisplay{display}: no dimensions and no configs yet
VtsDisplay(display) ==
    [id |-> display, width |-> 0, height |-> 0,
     configs |-> [c \in {} |-> [vsyncPeriod |-> 0, configGroup |-> 0]]]

\* what the service answers for one display during one operation: the version
\* it answers each asking place with, the status of each query and the values
\* it reports
RemoteAnswers ==
    [versions : [Gates -> InterfaceVersions],
     configsStatus : RemoteStatuses,       \* getDisplayConfig(uration)s
     configs : ConfigLists,
     attrStatus : [Attributes -> AttrStatuses],
     activeStatus : RemoteStatuses,        \* getActiveConfig
     activeConfig : ActiveConfigs,
     againStatus : RemoteStatuses,         \* getDisplayConfigurations, second time
     width : Dimensions,
     height : Dimensions]

\* the service answers every asking place with the same version
UniformVersions == {[g \in Gates |-> v] : v \in InterfaceVersions}

\* the service answers the asking places with different versions
MixedVersions ==
    {[g \in Gates |-> IF g = "updateDisplayProperties"
                      THEN ExtendedConfigVersion - 1
                      ELSE ExtendedConfigVersion],
     [g \in Gates |-> IF g = "getDisplayConfigs"
                      THEN ExtendedConfigVersion
                      ELSE ExtendedConfigVersion - 1]}

\* an answer with every query succeeding
OkAnswer ==
    [versions |-> [g \in Gates |-> ExtendedConfigVersion],
     configsStatus |-> StatusOk, configs |-> <<0, 1>>,
     attrStatus |-> [t \in Attributes |-> StatusOk],
     activeStatus |-> StatusOk, activeConfig |-> 1, againStatus |-> StatusOk,
     width |-> 2, height |-> 2]

\* the answers that differ from it in the config list, in one query failing, in
\* the active config being none of the list, or in a negative width
OddAnswers ==
    {[OkAnswer EXCEPT !.configs = <<1>>],
     [OkAnswer EXCEPT !.configsStatus = "EX_NO_RESOURCES"],
     [OkAnswer EXCEPT !.attrStatus["VSYNC_PERIOD"] = "EX_UNSUPPORTED"],
     [OkAnswer EXCEPT !.attrStatus["WIDTH"] = "EX_UNSUPPORTED"],
     [OkAnswer EXCEPT !.activeStatus = "EX_UNSUPPORTED"],
     [OkAnswer EXCEPT !.activeConfig = 7],
     [OkAnswer EXCEPT !.againStatus = "EX_NO_RESOURCES"],
     [OkAnswer EXCEPT !.width = -1]}

SampleAnswers ==
    {[a EXCEPT !.versions = v] : a \in {OkAnswer} \cup OddAnswers,
                                 v \in UniformVersions}
    \cup {[OkAnswer EXCEPT !.versions = v] : v \in MixedVersions}

\* the sample answers that differ in what updateDisplayProperties reads
UpdateAnswers ==
    {a \in SampleAnswers : /\ a.versions \in UniformVersions
                           /\ a.configsStatus = StatusOk
                           /\ a.activeStatus = StatusOk
                           /\ a.activeConfig = OkAnswer.activeConfig
                           /\ a.attrStatus["VSYNC_PERIOD"] = StatusOk}

\* the answers discovery gets while the layer lifecycle is explored: every
\* query succeeds, or the first one fails
LifecycleAnswers == {OkAnswer, [OkAnswer EXCEPT !.configsStatus = "EX_NO_RESOURCES"]}

\* the width and height the service reports for a config under an answer
RemoteWidth(a, config) == a.width * (config + 1)
RemoteHeight(a, config) == a.height * (config + 1)

\* the vsync period and config group the service reports for a config
RemoteVsyncPeriod(config) == 16 - config
RemoteConfigGroup(config) == config

\* VtsComposerClient::getInterfaceVersion: a call to the service, which answers
\* with version
VersionCall(display, version) ==
    [kind |-> "remote", fn |-> "getInterfaceVersion", display |-> display,
     layer |-> 0, status |-> StatusOk, arg |-> <<version>>]

\* a config-set query (getDisplayConfigs or getDisplayConfigurations) the client
\* made, with the status and the config ids the service answered
ConfigsCall(fn, display, status, configs) ==
    [kind |-> "remote", fn |-> fn, display |-> display, layer |-> 0,
     status |-> status, arg |-> IF status # StatusOk THEN <<>> ELSE configs]

\* mutant: the extended query is unlocked one version late
getDisplayConfigurationSupportedLate(version) == version > ExtendedConfigVersion

\* VtsComposerClient::getDisplayConfigurationSupported, given the version the
\* getInterfaceVersion call it makes is answered with
getDisplayConfigurationSupported(version) == version >= ExtendedConfigVersion

\* VtsDisplay::addDisplayConfig
addDisplayConfig(vts, config, displayConfig) ==
    [vts EXCEPT !.configs =
        [c \in DOMAIN vts.configs \cup {config} |->
            IF c = config THEN displayConfig ELSE vts.configs[c]]]

\* VtsComposerClient::addDisplayConfigs
RECURSIVE addDisplayConfigs(_, _)
addDisplayConfigs(vts, configs) ==
    IF configs = <<>>
    THEN vts
    ELSE addDisplayConfigs(
            addDisplayConfig(vts, Head(configs),
                             [vsyncPeriod |-> RemoteVsyncPeriod(Head(configs)),
                              configGroup |-> RemoteConfigGroup(Head(configs))]),
            Tail(configs))

AttrCall(display, config, attribute, a) ==
    [kind |-> "remote", fn |-> "getDisplayAttribute", display |-> display,
     layer |-> 0, status |-> a.attrStatus[attribute],
     arg |-> <<config, attribute>>]

\* mutant: the config group is not asked for
addDisplayConfigLegacyHalf(vts, config, a) ==
    LET sent == <<AttrCall(vts.id, config, "VSYNC_PERIOD", a)>>
    IN  IF a.attrStatus["VSYNC_PERIOD"] = StatusOk
        THEN [status |-> StatusOk, issued |-> sent,
              vts |-> addDisplayConfig(vts, config,
                         [vsyncPeriod |-> RemoteVsyncPeriod(config),
                          configGroup |-> 0])]
        ELSE [status |-> EX_BAD_CONFIG, issued |-> sent, vts |-> vts]

\* VtsComposerClient::addDisplayConfigLegacy: both attribute queries are made,
\* then the config is added only if both succeeded
addDisplayConfigLegacy(vts, config, a) ==
    LET sent == <<AttrCall(vts.id, config, "VSYNC_PERIOD", a),
                  AttrCall(vts.id, config, "CONFIG_GROUP", a)>>
    IN  IF a.attrStatus["VSYNC_PERIOD"] = StatusOk
           /\ a.attrStatus["CONFIG_GROUP"] = StatusOk
        THEN [status |-> StatusOk, issued |-> sent,
              vts |-> addDisplayConfig(vts, config,
                         [vsyncPeriod |-> RemoteVsyncPeriod(config),
                          configGroup |-> RemoteConfigGroup(config)])]
        ELSE [status |-> EX_BAD_CONFIG, issued |-> sent, vts |-> vts]

\* the loop of getDisplays over the raw config ids (legacy path)
RECURSIVE addConfigsLegacy(_, _, _)
addConfigsLegacy(vts, configs, a) ==
    IF configs = <<>>
    THEN [status |-> StatusOk, issued |-> <<>>, vts |-> vts]
    ELSE LET one == addDisplayConfigLegacy(vts, Head(configs), a)
             rest == addConfigsLegacy(one.vts, Tail(configs), a)
         IN  IF one.status # StatusOk
             THEN one
             ELSE [status |-> rest.status, issued |-> one.issued \o rest.issued,
                   vts |-> rest.vts]

\* VtsComposerClient::getDisplayConfigs, as a function of what the service
\* answers: the status and config ids returned and what was sent out
getDisplayConfigsResult(display, a) ==
    LET version == a.versions["getDisplayConfigs"]
        fn == IF getDisplayConfigurationSupported(version)
              THEN "getDisplayConfigurations"
              ELSE "getDisplayConfigs"
    IN  [status |-> a.configsStatus,
         issued |-> <<VersionCall(display, version),
                      ConfigsCall(fn, display, a.configsStatus, a.configs)>>,
         configs |-> IF a.configsStatus # StatusOk THEN <<>> ELSE a.configs]

\* mutant: the extended path takes the dimensions without looking the config up
updateDisplayPropertiesUnchecked(vts, config, a) ==
    LET version == a.versions["updateDisplayProperties"]
    IN  IF getDisplayConfigurationSupported(version)
        THEN LET sent == <<VersionCall(vts.id, version),
                           ConfigsCall("getDisplayConfigurations", vts.id,
                                       a.againStatus, a.configs)>>
             IN  IF a.againStatus = StatusOk
                 THEN [status |-> StatusOk, issued |-> sent,
                       vts |-> [vts EXCEPT !.width = RemoteWidth(a, config),
                                           !.height = RemoteHeight(a, config)]]
                 ELSE [status |-> EX_BAD_CONFIG, issued |-> sent, vts |-> vts]
        ELSE LET sent == <<VersionCall(vts.id, version),
                           AttrCall(vts.id, config, "WIDTH", a),
                           AttrCall(vts.id, config, "HEIGHT", a)>>
             IN  IF a.attrStatus["WIDTH"] = StatusOk
                    /\ a.attrStatus["HEIGHT"] = StatusOk
                 THEN [status |-> StatusOk, issued |-> sent,
                       vts |-> [vts EXCEPT !.width = RemoteWidth(a, config),
                                           !.height = RemoteHeight(a, config)]]
                 ELSE [status |-> EX_BAD_CONFIG, issued |-> sent, vts |-> vts]

\* VtsComposerClient::updateDisplayProperties
updateDisplayProperties(vts, config, a) ==
    LET version == a.versions["updateDisplayProperties"]
    IN  IF getDisplayConfigurationSupported(version)
        THEN LET sent == <<VersionCall(vts.id, version),
                           ConfigsCall("getDisplayConfigurations", vts.id,
                                       a.againStatus, a.configs)>>
             IN  IF a.againStatus = StatusOk
                    /\ \E i \in 1..Len(a.configs) : a.configs[i] = config
                 THEN [status |-> StatusOk, issued |-> sent,
                       vts |-> [vts EXCEPT !.width = RemoteWidth(a, config),
                                           !.height = RemoteHeight(a, config)]]
                 ELSE [status |-> EX_BAD_CONFIG, issued |-> sent, vts |-> vts]
        ELSE LET sent == <<VersionCall(vts.id, version),
                           AttrCall(vts.id, config, "WIDTH", a),
                           AttrCall(vts.id, config, "HEIGHT", a)>>
             IN  IF a.attrStatus["WIDTH"] = StatusOk
                    /\ a.attrStatus["HEIGHT"] = StatusOk
                 THEN [status |-> StatusOk, issued |-> sent,
                       vts |-> [vts EXCEPT !.width = RemoteWidth(a, config),
                                           !.height = RemoteHeight(a, config)]]
                 ELSE [status |-> EX_BAD_CONFIG, issued |-> sent, vts |-> vts]

\* the tail of one iteration of getDisplays: the active config and the dimensions
resolveActive(vts, sent, a) ==
    LET active == [RemoteCall("getActiveConfig", vts.id, 0, a.activeStatus)
                      EXCEPT !.arg = IF a.activeStatus # StatusOk
                                     THEN <<>>
                                     ELSE <<a.activeConfig>>]
        updated == updateDisplayProperties(vts, a.activeConfig, a)
    IN  IF a.activeStatus # StatusOk
        THEN [status |-> a.activeStatus, issued |-> Append(sent, active), vts |-> vts]
        ELSE [status |-> updated.status,
              issued |-> Append(sent, active) \o updated.issued,
              vts |-> updated.vts]

\* one iteration of the loop of getDisplays over the polled displays
resolveDisplay(display, a) ==
    LET vts == VtsDisplay(display)
        version == a.versions["getDisplays"]
    IN  IF getDisplayConfigurationSupported(version)
        THEN LET sent == <<VersionCall(display, version),
                           ConfigsCall("getDisplayConfigurations", display,
                                       a.configsStatus, a.configs)>>
             IN  IF a.configsStatus # StatusOk
                 THEN [status |-> a.configsStatus, issued |-> sent, vts |-> vts]
                 ELSE resolveActive(addDisplayConfigs(vts, a.configs), sent, a)
        ELSE LET got == getDisplayConfigsResult(display, a)
                 sent == <<VersionCall(display, version)>> \o got.issued
                 added == addConfigsLegacy(vts, got.configs, a)
             IN  IF got.status # StatusOk
                 THEN [status |-> got.status, issued |-> sent, vts |-> vts]
                 ELSE IF added.status # StatusOk
                 THEN [status |-> added.status, issued |-> sent \o added.issued,
                       vts |-> added.vts]
                 ELSE resolveActive(added.vts, sent \o added.issued, a)

\* VtsComposerClient::getDisplays is entered
getDisplays ==
    /\ Idle
    /\ pc' = "poll"
    /\ entry' = mDisplayResources
    /\ issued' = <<>>
    /\ lastCall' = Op("getDisplays", 0, 0, "running", <<>>)
    /\ UNCHANGED <<Fixed, writer, Locals, mNextLayerHandle, mDisplayResources,
                   mComposerCallback>>

\* mutant: an error is returned without the displays resolved before it
getDisplaysReturnNothing(status, resolved) ==
    /\ pc' = "idle"
    /\ displays' = <<>>
    /\ vtsDisplays' = <<>>
    /\ lastCall' = Op("getDisplays", 0, 0, status,
                      IF status # StatusOk THEN <<>> ELSE resolved)

\* getDisplays returns: its locals go away
getDisplaysReturn(status, resolved) ==
    /\ pc' = "idle"
    /\ displays' = <<>>
    /\ vtsDisplays' = <<>>
    /\ lastCall' = Op("getDisplays", 0, 0, status, resolved)

\* mutant: the polled list is taken for empty every time
displaysEmptyAlways(polled) == TRUE

\* mutant: the polled list is never looked at
displaysEmptyNever(polled) == FALSE

\* getDisplays: displays.empty(), the condition that makes the loop go round
displaysEmpty(polled) == polled = <<>>

\* getDisplays: sleep, poll the callback's display list; go round while it is
\* empty (a loop over no displays would return success with no display)
pollDisplays ==
    /\ pc = "poll"
    /\ \E polled \in DisplayLists :
          IF displaysEmpty(polled)
          THEN UNCHANGED <<pc, displays, vtsDisplays, lastCall>>
          ELSE IF Len(polled) = 0
          THEN getDisplaysReturn(StatusOk, <<>>)
          ELSE /\ displays' = polled
               /\ vtsDisplays' = <<>>
               /\ pc' = "resolve"
               /\ UNCHANGED lastCall
    /\ UNCHANGED <<Fixed, writer, mNextLayerHandle, mDisplayResources, physicalDisplays, it,
                   mComposerCallback, issued, entry>>

\* getDisplays: one iteration over the polled displays, the service answering
\* with one of answers
resolveNext(answers) ==
    /\ pc = "resolve"
    /\ \E a \in answers :
          LET display == displays[Len(vtsDisplays) + 1]
              r == resolveDisplay(display, a)
              resolved == Append(vtsDisplays, r.vts)
          IN  /\ issued' = issued \o r.issued
              /\ IF r.status # StatusOk
                 THEN /\ getDisplaysReturn(r.status, vtsDisplays)
                      /\ UNCHANGED mDisplayResources
                 ELSE /\ mDisplayResources' =
                            addDisplayToDisplayResources(mDisplayResources, display,
                                                         FALSE).reg
                      /\ IF Len(resolved) = Len(displays)
                         THEN getDisplaysReturn(StatusOk, resolved)
                         ELSE /\ vtsDisplays' = resolved
                              /\ UNCHANGED <<pc, displays, lastCall>>
    /\ UNCHANGED <<Fixed, writer, mNextLayerHandle, physicalDisplays, it,
                   mComposerCallback, entry>>

\* ------------------------------------------------------- config operations
\* VtsComposerClient::getDisplayConfigs, called by the driver, the service
\* answering with one of answers
getDisplayConfigs(display, answers) ==
    /\ Idle
    /\ \E a \in answers :
          LET r == getDisplayConfigsResult(display, a)
          IN  /\ issued' = r.issued
              /\ lastCall' = Op("getDisplayConfigs", display, 0, r.status, r.configs)
    /\ entry' = mDisplayResources
    /\ UNCHANGED <<Fixed, writer, Locals, mNextLayerHandle, mDisplayResources, pc,
                   mComposerCallback>>

\* the VtsDisplay of a display as the driver holds it, resolved earlier at 1 x 1
HeldDisplay(display) == [VtsDisplay(display) EXCEPT !.width = 1, !.height = 1]

\* mutant: the dimensions are not updated after the set call
setActiveConfigResultStale(vts, config, status, a) ==
    [status |-> status,
     issued |-> <<RemoteCall("setActiveConfig", vts.id, 0, status)>>,
     vts |-> vts]

\* VtsComposerClient::setActiveConfig, as a function of the status the service
\* answers the set call with and of what it answers the queries that follow
setActiveConfigResult(vts, config, status, a) ==
    LET set == RemoteCall("setActiveConfig", vts.id, 0, status)
        updated == updateDisplayProperties(vts, config, a)
    IN  IF status # StatusOk
        THEN [status |-> status, issued |-> <<set>>, vts |-> vts]
        ELSE [status |-> updated.status, issued |-> <<set>> \o updated.issued,
              vts |-> updated.vts]

\* VtsComposerClient::setActiveConfig on the caller's VtsDisplay of a display,
\* the service answering the queries after a successful set call with one of
\* answers
setActiveConfig(display, config, answers) ==
    /\ Idle
    /\ \E status \in RemoteStatuses :
       \E a \in IF status # StatusOk THEN {OkAnswer} ELSE answers :
          LET r == setActiveConfigResult(HeldDisplay(display), config, status, a)
          IN  /\ issued' = r.issued
              /\ lastCall' = Op("setActiveConfig", display, 0, r.status,
                                [config |-> config, vts |-> r.vts,
                                 reported |-> [width |-> RemoteWidth(a, config),
                                               height |-> RemoteHeight(a, config)]])
    /\ entry' = mDisplayResources
    /\ UNCHANGED <<Fixed, writer, Locals, mNextLayerHandle, mDisplayResources, pc,
                   mComposerCallback>>

\* VtsComposerClient::setActiveConfigWithConstraints, as a function of the
\* status the service answers the set call with and of what it answers the
\* queries that follow (the timeline it returns is not modelled)
setActiveConfigWithConstraintsResult(vts, config, status, a) ==
    LET set == RemoteCall("setActiveConfigWithConstraints", vts.id, 0, status)
        updated == updateDisplayProperties(vts, config, a)
    IN  IF status # StatusOk
        THEN [status |-> status, issued |-> <<set>>, vts |-> vts]
        ELSE [status |-> updated.status, issued |-> <<set>> \o updated.issued,
              vts |-> updated.vts]

\* VtsComposerClient::setActiveConfigWithConstraints on the caller's VtsDisplay
setActiveConfigWithConstraints(display, config, answers) ==
    /\ Idle
    /\ \E status \in RemoteStatuses :
       \E a \in IF status # StatusOk THEN {OkAnswer} ELSE answers :
          LET r == setActiveConfigWithConstraintsResult(HeldDisplay(display), config,
                                                        status, a)
          IN  /\ issued' = r.issued
              /\ lastCall' = Op("setActiveConfigWithConstraints", display, 0, r.status,
                                [config |-> config, vts |-> r.vts,
                                 reported |-> [width |-> RemoteWidth(a, config),
                                               height |-> RemoteHeight(a, config)]])
    /\ entry' = mDisplayResources
    /\ UNCHANGED <<Fixed, writer, Locals, mNextLayerHandle, mDisplayResources, pc,
                   mComposerCallback>>

\* ------------------------------------------------------- peak refresh rate
\* the config ids, vsync periods and config groups of the displays handed to
\* setPeakRefreshRateConfig
PeakConfigIds == {0, 1, 2}
VsyncPeriods == {8, 16}
ConfigGroups == {0, 1}

\* the caller's VtsDisplay of a display: some configs, each with a vsync period
\* and a config group
PeakDisplays(display) ==
    {[VtsDisplay(display) EXCEPT !.configs = configs] :
        configs \in UNION {[ids -> [vsyncPeriod : VsyncPeriods,
                                      configGroup : ConfigGroups]] :
                              ids \in SUBSET PeakConfigIds \ {{}}}}

\* the orders in which a range-for may meet the keys of an unordered map
IterationOrders(ids) ==
    {order \in [1..Cardinality(ids) -> ids] :
        \A i, j \in 1..Cardinality(ids) : order[i] = order[j] => i = j}

\* setPeakRefreshRateConfig, the loop over the display's configs met in some
\* order: peak is the pair (peakConfig, peakDisplayConfig) so far
RECURSIVE peakScan(_, _, _)
peakScan(configs, order, peak) ==
    IF order = <<>>
    THEN peak
    ELSE LET config == Head(order)
             displayConfig == configs[config]
         IN  peakScan(configs, Tail(order),
                      IF /\ displayConfig.configGroup = peak.displayConfig.configGroup
                         /\ displayConfig.vsyncPeriod < peak.displayConfig.vsyncPeriod
                      THEN [config |-> config, displayConfig |-> displayConfig]
                      ELSE peak)

\* setPeakRefreshRateConfig up to its setActiveConfig call: the config it asks
\* for, given what it finds in the out-parameter of getActiveConfig
peakConfig(vts, order, activeConfig) ==
    peakScan(vts.configs, order,
             [config |-> activeConfig,
              displayConfig |-> vts.configs[activeConfig]]).config

\* VtsComposerClient::setPeakRefreshRateConfig on the caller's VtsDisplay vts,
\* the service holding current as the display's active config: the function
\* is entered and calls getActiveConfig. Config ids the display has no config
\* for are looked up by VtsDisplay::getDisplayConfig; the ids here are kept to
\* those it has.
setPeakRefreshRateConfig(vts, current) ==
    /\ Idle
    /\ current \in DOMAIN vts.configs
    /\ \E activeStatus \in RemoteStatuses :
          issued' = <<[RemoteCall("getActiveConfig", vts.id, 0, activeStatus)
                          EXCEPT !.arg = IF activeStatus # StatusOk
                                         THEN <<>>
                                         ELSE <<current>>]>>
    /\ lastCall' = Op("setPeakRefreshRateConfig", vts.id, 0, "running",
                      [vts |-> vts, current |-> current, requested |-> current])
    /\ pc' = "peak"
    /\ entry' = mDisplayResources
    /\ UNCHANGED <<Fixed, writer, Locals, mNextLayerHandle, mDisplayResources,
                   mComposerCallback>>

\* setPeakRefreshRateConfig after getActiveConfig: a failed call is noted by
\* EXPECT_TRUE and the function goes on with what the uninitialized outConfig
\* holds; it scans the configs and calls setActiveConfig
peakSet ==
    /\ pc = "peak"
    /\ LET vts == lastCall.value.vts
       IN  \E status \in RemoteStatuses,
              order \in IterationOrders(DOMAIN vts.configs) :
           \E outConfig \in IF issued[1].status # StatusOk
                            THEN DOMAIN vts.configs
                            ELSE {issued[1].arg[1]} :
              LET requested == peakConfig(vts, order, outConfig)
                  r == setActiveConfigResult(vts, requested, status, OkAnswer)
              IN  /\ issued' = issued \o r.issued
                  /\ lastCall' = Op("setPeakRefreshRateConfig", vts.id, 0, r.status,
                                    [lastCall.value EXCEPT !.requested = requested])
    /\ pc' = "idle"
    /\ UNCHANGED <<Fixed, writer, Locals, mNextLayerHandle, mDisplayResources,
                   mComposerCallback, entry>>

\* ------------------------------------------------------------ specification
Next ==
    \/ createClient
    \/ createVirtualDisplay
    \/ \E display \in DisplayIds : destroyVirtualDisplay(display)
    \/ \E display \in DisplayIds, bufferSlotCount \in BufferSlotCounts :
          createLayer(display, bufferSlotCount, TRUE)
    \/ \E display \in DisplayIds, layer \in LayerIds :
          destroyLayer(display, layer, TRUE)
    \/ tearDown
    \/ drainBegin
    \/ drainLayer(TRUE)
    \/ drainDisplay(TRUE)
    \/ drainFinish(TRUE)
    \/ getDisplays
    \/ pollDisplays
    \/ resolveNext(LifecycleAnswers)
    \/ \E display \in DisplayIds : getDisplayConfigs(display, LifecycleAnswers)
    \/ \E display \in DisplayIds, config \in ConfigIds :
          setActiveConfig(display, config, LifecycleAnswers)
    \/ \E display \in DisplayIds, config \in ConfigIds :
          setActiveConfigWithConstraints(display, config, LifecycleAnswers)

\* the client with every operation, discovery answered from LifecycleAnswers
Spec == Init /\ [][Next]_vars

\* the client with the driver thread going on through destroyAllLayers once it
\* has entered it
SpecDrain ==
    /\ Spec
    /\ WF_vars(drainBegin)
    /\ WF_vars(drainLayer(TRUE))
    /\ WF_vars(drainDisplay(TRUE))
    /\ WF_vars(drainFinish(TRUE))

\* the layer lifecycle with a driver that keeps one writer over its calls and
\* executes the pending commands when it chooses to
NextWriter ==
    \/ createClient
    \/ \E display \in DisplayIds, bufferSlotCount \in BufferSlotCounts :
          createLayer(display, bufferSlotCount, FALSE)
    \/ \E display \in DisplayIds, layer \in LayerIds :
          destroyLayer(display, layer, FALSE)
    \/ tearDown
    \/ drainBegin
    \/ drainLayer(FALSE)
    \/ drainDisplay(FALSE)
    \/ drainFinish(FALSE)
    \/ executeCommands

SpecWriter == Init /\ [][NextWriter]_vars

\* the refresh-rate operation alone, on every VtsDisplay of one display
NextPeak ==
    \/ createClient
    \/ \E vts \in PeakDisplays(CHOOSE display \in DisplayIds : TRUE),
          current \in PeakConfigIds :
          setPeakRefreshRateConfig(vts, current)
    \/ peakSet

SpecPeak == Init /\ [][NextPeak]_vars

\* the operations that query configurations, and those that put displays in
\* the registry before them
NextDiscovery ==
    \/ createClient
    \/ createVirtualDisplay
    \/ getDisplays
    \/ pollDisplays
    \/ resolveNext(SampleAnswers)
    \/ \E display \in DisplayIds : getDisplayConfigs(display, SampleAnswers)
    \/ \E display \in DisplayIds, config \in ActiveConfigs :
          setActiveConfig(display, config, UpdateAnswers)
    \/ \E display \in DisplayIds, config \in ActiveConfigs :
          setActiveConfigWithConstraints(display, config, UpdateAnswers)

\* the client discovering and configuring displays, the service answering from
\* SampleAnswers
SpecDiscovery == Init /\ [][NextDiscovery]_vars

\* discovery alone, called again and again
NextPoll ==
    \/ createClient
    \/ getDisplays
    \/ pollDisplays
    \/ resolveNext(SampleAnswers)

\* discovery with the driver thread going on through getDisplays once it has
\* entered it, every remote query returning, and the callback reporting a
\* display at some poll (a poll that finds none changes nothing: it is not a
\* step of pollDisplays that fairness counts). An iteration is enabled exactly
\* when pc = "resolve", whatever the service answers, and every iteration
\* advances or returns: fairness of the iteration under one answer rules out
\* the same behaviours as under any, those that stay in the loop for ever.
SpecPoll ==
    /\ Init
    /\ [][NextPoll]_vars
    /\ WF_vars(pollDisplays)
    /\ WF_vars(resolveNext({OkAnswer}))

\* ------------------------------------------------------------------ claims
Registry == mDisplayResources
Batched == mSupportsBatchedCreateLayer

\* layers owned by a display; none when the display has no entry
LayersOf(reg, display) == IF display \in DOMAIN reg THEN reg[display].layers ELSE {}

\* the displays that own a layer
OwnersOf(reg, layer) == {d \in DOMAIN reg : layer \in reg[d].layers}

VirtualDisplays(reg) == {d \in DOMAIN reg : reg[d].isVirtual}
PhysicalDisplays(reg) == {d \in DOMAIN reg : ~reg[d].isVirtual}

\* every layer some display owns
OwnedLayers(reg) == UNION {reg[d].layers : d \in DOMAIN reg}

\* the log entry is a destroy of (display, layer) in the form the mode uses
IsDestroyOf(c, display, layer) ==
    /\ c.display = display
    /\ c.layer = layer
    /\ IF Batched
       THEN c.kind = "record" /\ c.fn = "DESTROY"
       ELSE c.kind = "remote" /\ c.fn = "destroyLayer"

\* C1: a tearDown that returns true leaves the registry with no virtual
\* display and no layer, and every physical display that was registered when
\* tearDown was entered is still registered, as a physical display with an
\* empty layer set.
C1_TearDownKeepsPhysicalDisplays ==
    (lastCall.op = "tearDown" /\ lastCall.status = "true") =>
        /\ VirtualDisplays(Registry) = {}
        /\ OwnedLayers(Registry) = {}
        /\ \A d \in PhysicalDisplays(entry) : d \in PhysicalDisplays(Registry)

\* C2: when the callback reports a non-zero anomalous count, tearDown returns
\* false and the drain has still run: with a layer or a virtual display
\* registered at entry, destroy operations were sent out.
C2_AnomalyFailsTearDownButDrains ==
    (lastCall.op = "tearDown" /\ pc = "idle" /\ lastCall.value = TRUE) =>
        /\ lastCall.status = "false"
        /\ (OwnedLayers(entry) # {} \/ VirtualDisplays(entry) # {}) => issued # <<>>

\* C3: in unbatched mode a destroyLayer whose remote call fails returns the
\* remote status, after that one remote call, and leaves the whole registry as
\* it was when destroyLayer was entered.
C3_FailedDestroyLeavesRegistry ==
    (lastCall.op = "destroyLayer" /\ ~Batched /\ lastCall.status # StatusOk) =>
        /\ issued = <<RemoteCall("destroyLayer", lastCall.display, lastCall.layer,
                                 lastCall.status)>>
        /\ lastCall.status \in RemoteErrors
        /\ Registry = entry

\* C3 witness: a failed unbatched destroyLayer of a layer its display owns.
C3_Witness ==
    /\ lastCall.op = "destroyLayer"
    /\ ~Batched
    /\ lastCall.status # StatusOk
    /\ lastCall.layer \in LayersOf(Registry, lastCall.display)
    /\ Cardinality(DOMAIN Registry) = 2

\* C4: in batched mode, a destroyLayer(display, L) that directly follows the
\* createLayer(display, n) that returned L leaves L owned by no display and
\* every display's layer set as it was before the createLayer.
C4_CreateThenDestroyCancels ==
    [][(/\ Batched
        /\ lastCall.op = "createLayer"
        /\ lastCall'.op = "destroyLayer"
        /\ lastCall'.display = lastCall.display
        /\ lastCall'.layer = lastCall.value)
       => (/\ OwnersOf(Registry', lastCall.value) = {}
           /\ lastCall'.status = StatusOk
           /\ \A d \in DisplayIds :
                 LayersOf(Registry', d) = LayersOf(entry, d))]_vars

\* C4 witness: a batched destroyLayer of the layer created last, which its
\* display owned, with other layers registered.
C4_Witness ==
    /\ Batched
    /\ lastCall.op = "destroyLayer"
    /\ lastCall.layer = mNextLayerHandle - 1
    /\ lastCall.layer \in LayersOf(entry, lastCall.display)
    /\ lastCall.layer \notin OwnedLayers(Registry)
    /\ OwnedLayers(Registry) # {}

\* C5: in batched mode every createLayer returns an id no smaller than the
\* generator held before the call and smaller than the generator afterwards,
\* and the generator never goes back: the ids are strictly increasing in call
\* order, so pairwise distinct and never reused. The id is not owned by any
\* display before the call, is owned by the display it was created for
\* afterwards, and createLayer makes no remote call.
C5_BatchedIdsIncrease ==
    [][/\ mNextLayerHandle' >= mNextLayerHandle
       /\ (Batched /\ lastCall'.op = "createLayer") =>
             /\ lastCall'.value >= mNextLayerHandle
             /\ lastCall'.value < mNextLayerHandle'
             /\ lastCall'.value > 0
             /\ lastCall'.value \notin OwnedLayers(Registry)
             /\ lastCall'.value \in LayersOf(Registry', lastCall'.display)
             /\ lastCall'.status = StatusOk
             /\ RemoteCalls(issued') = <<>>]_vars

\* C5 witness: a batched createLayer after the first id was handed out and
\* destroyed again.
C5_Witness ==
    /\ Batched
    /\ lastCall.op = "createLayer"
    /\ lastCall.value > FirstLayerHandle
    /\ FirstLayerHandle \notin OwnedLayers(Registry)

\* C6: a createVirtualDisplay whose remote call succeeds with an id that is
\* already registered fails with EX_BAD_DISPLAY and leaves the registry, the
\* existing entry's virtual flag and layer set included, as it was; with a new
\* id it adds one virtual entry with no layers and changes nothing else.
C6_DuplicateDisplayRejected ==
    (lastCall.op = "createVirtualDisplay" /\ issued[1].status = StatusOk) =>
        IF lastCall.display \in DOMAIN entry
        THEN lastCall.status = EX_BAD_DISPLAY /\ Registry = entry
        ELSE /\ lastCall.status = StatusOk
             /\ Registry = MapInsert(entry, lastCall.display,
                                     [isVirtual |-> TRUE, layers |-> {}])

\* C6 witness: createVirtualDisplay got the id of a physical display that owns
\* layers.
C6_Witness ==
    /\ lastCall.op = "createVirtualDisplay"
    /\ lastCall.status = EX_BAD_DISPLAY
    /\ lastCall.display \in PhysicalDisplays(Registry)
    /\ Registry[lastCall.display].layers # {}

\* C7: an unbatched createLayer whose remote call succeeds with a layer id the
\* display already owns fails with EX_BAD_LAYER and leaves the registry as it
\* was; with an id the display does not own it succeeds and the display's
\* layer set grows by exactly that id.
C7_DuplicateLayerRejected ==
    (lastCall.op = "createLayer" /\ ~Batched /\ issued[1].status = StatusOk) =>
        IF lastCall.value \in LayersOf(entry, lastCall.display)
        THEN lastCall.status = EX_BAD_LAYER /\ Registry = entry
        ELSE /\ lastCall.status = StatusOk
             /\ LayersOf(Registry, lastCall.display) =
                   LayersOf(entry, lastCall.display) \cup {lastCall.value}

\* C7 witness: the service answered createLayer with an id the display owned.
C7_Witness ==
    /\ lastCall.op = "createLayer"
    /\ ~Batched
    /\ lastCall.status = EX_BAD_LAYER
    /\ Cardinality(LayersOf(Registry, lastCall.display)) = 2

\* C8 as claimed: in every reachable state, in either mode, every layer id is
\* in the layer set of at most one display.
C8_LayerUnderOneDisplay ==
    \A layer \in LayerIds : Cardinality(OwnersOf(Registry, layer)) <= 1

\* C8 as amended: in batched mode every layer id is in the layer set of at
\* most one display (in unbatched mode the service may assign one id on two
\* displays, and the registry then holds it under both).
C8_BatchedLayerUnderOneDisplay ==
    Batched => \A layer \in LayerIds : Cardinality(OwnersOf(Registry, layer)) <= 1

\* C8 witness: batched mode, two displays that each own a layer.
C8_Witness ==
    /\ Batched
    /\ \A d \in DisplayIds : LayersOf(Registry, d) # {}

\* C9: an unbatched createLayer makes exactly one remote create call. If the
\* call succeeds, the id the service assigned is returned and the display owns
\* it, and no other display's entry changes; if it fails, the remote status is
\* returned and the registry is as it was (no layer, no placeholder display).
C9_UnbatchedCreateLayer ==
    (lastCall.op = "createLayer" /\ ~Batched) =>
        /\ Len(issued) = 1
        /\ issued[1].kind = "remote"
        /\ issued[1].fn = "createLayer"
        /\ issued[1].display = lastCall.display
        /\ IF issued[1].status = StatusOk
           THEN /\ lastCall.value = issued[1].layer
                /\ lastCall.value \in LayersOf(Registry, lastCall.display)
                /\ \A d \in DisplayIds \ {lastCall.display} :
                      /\ d \in DOMAIN Registry <=> d \in DOMAIN entry
                      /\ d \in DOMAIN entry => Registry[d] = entry[d]
           ELSE /\ lastCall.status = issued[1].status
                /\ Registry = entry

\* C9 witness: a failed unbatched createLayer on a display with no entry.
C9_Witness ==
    /\ lastCall.op = "createLayer"
    /\ ~Batched
    /\ lastCall.status \in RemoteErrors
    /\ lastCall.display \notin DOMAIN Registry
    /\ DOMAIN Registry # {}

\* in what tearDown has sent out, every destroy-virtual-display call comes
\* after a destroy of every layer its display owned when tearDown was entered
DrainOrder ==
    lastCall.op = "tearDown" =>
        \A i \in 1..Len(issued) :
            issued[i].fn = "destroyVirtualDisplay" =>
                \A layer \in LayersOf(entry, issued[i].display) :
                    \E j \in 1..(i - 1) :
                        IsDestroyOf(issued[j], issued[i].display, layer)

\* C10: during the drain, the remote destroy-virtual-display call for a display
\* comes after a destroy operation (remote call in unbatched mode, DESTROY
\* record in batched mode) for every layer the display owned when tearDown was
\* entered, and a display leaves the registry only with an empty layer set.
C10_LayersBeforeDisplay ==
    [][/\ DrainOrder'
       /\ pc \in {"drain", "layers"} =>
             \A d \in DOMAIN Registry \ DOMAIN Registry' :
                 Registry[d].layers = {}]_vars

\* C10 witness: the drain destroyed a virtual display that owned two layers.
C10_Witness ==
    /\ lastCall.op = "tearDown"
    /\ \E i \in 1..Len(issued) :
          /\ issued[i].fn = "destroyVirtualDisplay"
          /\ issued[i].status = StatusOk
          /\ Cardinality(LayersOf(entry, issued[i].display)) = 2

\* C11: during the drain the first destroy (of a layer or of a virtual
\* display) that fails is the last operation tearDown sends out: tearDown has
\* returned false right after it.
C11_FirstFailureAbortsDrain ==
    lastCall.op = "tearDown" =>
        \A i \in 1..Len(issued) :
            issued[i].status \in RemoteErrors =>
                /\ i = Len(issued)
                /\ pc = "idle"
                /\ lastCall.status = "false"

\* C11 witness: the drain was aborted by a failing destroy after a destroy that
\* succeeded, with displays left in the registry.
C11_Witness ==
    /\ lastCall.op = "tearDown"
    /\ pc = "idle"
    /\ Len(issued) >= 2
    /\ issued[Len(issued)].status \in RemoteErrors
    /\ DOMAIN Registry # {}

\* C12: tearDown sends a destroy-virtual-display call only for displays whose
\* entry was virtual when tearDown was entered, and every display the drain
\* has passed (it has left the registry) that was virtual got one; a physical
\* display, a placeholder included, gets none.
C12_DestroyOnlyVirtualDisplays ==
    lastCall.op = "tearDown" =>
        /\ \A i \in 1..Len(issued) :
              issued[i].fn = "destroyVirtualDisplay" =>
                  issued[i].display \in VirtualDisplays(entry)
        /\ \A d \in VirtualDisplays(entry) \ DOMAIN Registry :
              \E i \in 1..Len(issued) :
                  /\ issued[i].fn = "destroyVirtualDisplay"
                  /\ issued[i].display = d

\* C12 witness: the drain has passed a physical display that owned layers and
\* has destroyed a virtual display.
C12_Witness ==
    /\ lastCall.op = "tearDown"
    /\ \E d \in PhysicalDisplays(entry) :
          d \notin DOMAIN Registry /\ entry[d].layers # {}
    /\ \E i \in 1..Len(issued) :
          issued[i].fn = "destroyVirtualDisplay" /\ issued[i].status = StatusOk

\* the display ids of a list of VtsDisplays, in order
DisplayIdsOf(list) == [i \in 1..Len(list) |-> list[i].id]

\* the functions of the service an operation called
FnsCalled(log) == {log[i].fn : i \in 1..Len(log)}

\* the versions the service answered an operation's getInterfaceVersion calls with
VersionsAnswered(log) ==
    {log[i].arg[1] : i \in {j \in 1..Len(log) : log[j].fn = "getInterfaceVersion"}}

\* the positions of the attribute queries for (display, config, attribute)
AttrQueries(log, display, config, attribute) ==
    {i \in 1..Len(log) : /\ log[i].fn = "getDisplayAttribute"
                         /\ log[i].display = display
                         /\ log[i].arg = <<config, attribute>>}

\* the raw config ids the service answered a display's getDisplayConfigs with
RawConfigs(log, display) ==
    UNION {{log[i].arg[k] : k \in 1..Len(log[i].arg)} :
              i \in {j \in 1..Len(log) : /\ log[j].fn = "getDisplayConfigs"
                                          /\ log[j].display = display}}

\* C13: getDisplays returns only out of an iteration whose poll observed at
\* least one display id, never out of the polling itself; it resolves displays
\* only after a poll that was not empty, and a successful return carries a
\* non-empty list with exactly the polled ids, in poll order.
C13_ReturnsAfterNonEmptyPoll ==
    [][/\ (pc \in {"poll", "resolve"} /\ pc' = "idle") =>
             /\ pc = "resolve"
             /\ displays # <<>>
             /\ lastCall'.op = "getDisplays"
             /\ lastCall'.status = StatusOk =>
                   /\ lastCall'.value # <<>>
                   /\ DisplayIdsOf(lastCall'.value) = displays
       /\ (pc = "poll" /\ pc' = "resolve") => displays' # <<>>]_vars

\* C13 witness: getDisplays has returned the two displays of a poll that
\* reported display 2 before display 1.
C13_Witness ==
    /\ lastCall.op = "getDisplays"
    /\ lastCall.status = StatusOk
    /\ DisplayIdsOf(lastCall.value) = <<2, 1>>

\* C14: when getDisplays returns an error, the failure was at the k-th polled
\* display: the list returned holds the k-1 displays resolved before it, in
\* poll order, and the registry holds what it held when getDisplays was
\* entered plus exactly those k-1 displays.
C14_ErrorReturnsResolvedPrefix ==
    [][(pc = "resolve" /\ pc' = "idle" /\ lastCall'.status # StatusOk) =>
          LET k == Len(lastCall'.value) + 1
          IN  /\ k <= Len(displays)
              /\ lastCall'.value = vtsDisplays
              /\ DisplayIdsOf(lastCall'.value) = SubSeq(displays, 1, k - 1)
              /\ issued'[Len(issued')].display = displays[k]
              /\ DOMAIN Registry' =
                    DOMAIN entry \cup {displays[i] : i \in 1..(k - 1)}
              /\ \A i \in k..Len(displays) :
                    displays[i] \in DOMAIN Registry' => displays[i] \in DOMAIN entry]_vars

\* C14 witness: getDisplays failed at the second of two displays; the first is
\* returned and is the only display in the registry.
C14_Witness ==
    /\ lastCall.op = "getDisplays"
    /\ lastCall.status \in RemoteErrors \cup {EX_BAD_CONFIG}
    /\ Len(lastCall.value) = 1
    /\ DOMAIN Registry = {lastCall.value[1].id}
    /\ issued[Len(issued)].display # lastCall.value[1].id

\* C15: every display a successful getDisplays returns has a non-negative
\* width and a non-negative height recorded.
C15_DimensionsNonNegative ==
    (lastCall.op = "getDisplays" /\ lastCall.status = StatusOk) =>
        \A i \in 1..Len(lastCall.value) :
            lastCall.value[i].width >= 0 /\ lastCall.value[i].height >= 0

\* C16: when every version the service answered is below 3 and getDisplays
\* succeeds, then for every display returned and every raw config id the
\* service listed for it there was exactly one VSYNC_PERIOD and exactly one
\* CONFIG_GROUP query, 2n such queries for n ids and none for another config,
\* and the display records exactly the listed ids, each with the vsync period
\* and config group the service reports for it.
C16_LegacyQueriesPerConfig ==
    (/\ lastCall.op = "getDisplays"
     /\ lastCall.status = StatusOk
     /\ \A v \in VersionsAnswered(issued) : v < 3) =>
        \A k \in 1..Len(lastCall.value) :
            LET vts == lastCall.value[k]
                raw == RawConfigs(issued, vts.id)
            IN  /\ raw # {}
                /\ DOMAIN vts.configs = raw
                /\ \A c \in raw :
                      /\ Cardinality(AttrQueries(issued, vts.id, c, "VSYNC_PERIOD")) = 1
                      /\ Cardinality(AttrQueries(issued, vts.id, c, "CONFIG_GROUP")) = 1
                      /\ vts.configs[c] = [vsyncPeriod |-> RemoteVsyncPeriod(c),
                                           configGroup |-> RemoteConfigGroup(c)]
                /\ Cardinality({i \in 1..Len(issued) :
                                  /\ issued[i].fn = "getDisplayAttribute"
                                  /\ issued[i].display = vts.id
                                  /\ issued[i].arg[2] \in {"VSYNC_PERIOD", "CONFIG_GROUP"}})
                      = 2 * Cardinality(raw)

\* C16 witness: a successful legacy discovery of two displays, one with the
\* config ids {0, 1} and one with a single config id.
C16_Witness ==
    /\ lastCall.op = "getDisplays"
    /\ lastCall.status = StatusOk
    /\ \A v \in VersionsAnswered(issued) : v < 3
    /\ Len(lastCall.value) = 2
    /\ DOMAIN lastCall.value[1].configs = {0, 1}
    /\ DOMAIN lastCall.value[2].configs = {1}

\* C17: in getDisplays, getDisplayConfigs and setActiveConfig (which runs
\* updateDisplayProperties) the version answered decides the query path, at
\* the threshold 3: a version query answered 3 or more is followed by
\* getDisplayConfigurations, one answered below 3 by a legacy query; with all
\* answers 3 or more no getDisplayConfigs or getDisplayAttribute call is
\* made, with all answers below 3 no getDisplayConfigurations call.
C17_PathByVersionThreshold ==
    lastCall.op \in {"getDisplays", "getDisplayConfigs", "setActiveConfig"} =>
        /\ (\A v \in VersionsAnswered(issued) : v >= 3) =>
              FnsCalled(issued) \cap {"getDisplayConfigs", "getDisplayAttribute"} = {}
        /\ (\A v \in VersionsAnswered(issued) : v < 3) =>
              "getDisplayConfigurations" \notin FnsCalled(issued)
        /\ \A i \in 1..Len(issued) :
              issued[i].fn = "getInterfaceVersion" =>
                  /\ i < Len(issued)
                  /\ IF issued[i].arg[1] >= 3
                     THEN issued[i + 1].fn = "getDisplayConfigurations"
                     ELSE issued[i + 1].fn \in {"getDisplayConfigs", "getDisplayAttribute",
                                                "getInterfaceVersion"}

\* C17 witness: a successful discovery of two displays on the extended path.
C17_Witness ==
    /\ lastCall.op = "getDisplays"
    /\ lastCall.status = StatusOk
    /\ Len(lastCall.value) = 2
    /\ VersionsAnswered(issued) = {3}
    /\ "getDisplayConfigurations" \in FnsCalled(issued)

\* C18: no operation asks the service for its interface version, so one
\* operation never takes the extended path at one place and the legacy path
\* at another.
C18_VersionNeverAskedAgain ==
    /\ "getInterfaceVersion" \notin FnsCalled(issued)
    /\ ~(/\ "getDisplayConfigurations" \in FnsCalled(issued)
         /\ FnsCalled(issued) \cap {"getDisplayConfigs", "getDisplayAttribute"} # {})

\* C19: when an operation has returned and a remote call it made failed, the
\* status it returned is the status of that remote call.
C19_RemoteStatusVerbatim ==
    (/\ pc = "idle"
     /\ lastCall.op \in {"createLayer", "destroyLayer", "createVirtualDisplay",
                         "destroyVirtualDisplay", "setActiveConfig", "getDisplays"}) =>
        \A i \in 1..Len(issued) :
            (issued[i].kind = "remote" /\ issued[i].status # StatusOk) =>
                lastCall.status = issued[i].status

\* C20 as claimed: after destroyVirtualDisplay, whatever the remote call
\* answered, the display has no registry entry.
C20_DisplayRemovedWhateverTheOutcome ==
    lastCall.op = "destroyVirtualDisplay" => lastCall.display \notin DOMAIN Registry

\* C20 as amended: destroyVirtualDisplay returns the status of its one remote
\* call; if the call succeeded the registry is the one at entry without the
\* display's entry, which is the registry at entry when the display had none
\* (so a second successful removal changes nothing); if the call failed the
\* registry is as it was at entry.
C20_DisplayRemovedOnSuccess ==
    lastCall.op = "destroyVirtualDisplay" =>
        /\ issued = <<RemoteCall("destroyVirtualDisplay", lastCall.display, 0,
                                 lastCall.status)>>
        /\ IF lastCall.status = StatusOk
           THEN /\ lastCall.display \notin DOMAIN Registry
                /\ \A d \in DOMAIN entry \ {lastCall.display} :
                      d \in DOMAIN Registry /\ Registry[d] = entry[d]
                /\ DOMAIN Registry \subseteq DOMAIN entry
                /\ lastCall.display \notin DOMAIN entry => Registry = entry
           ELSE Registry = entry

\* C20 witness: a successful destroyVirtualDisplay of an id that had no entry,
\* with another display registered.
C20_Witness ==
    /\ lastCall.op = "destroyVirtualDisplay"
    /\ lastCall.status = StatusOk
    /\ lastCall.display \notin DOMAIN entry
    /\ DOMAIN Registry # {}

\* C21: a setActiveConfig or setActiveConfigWithConstraints starts with the
\* remote set call. If it returns success, the display record holds the width
\* and height the service reports for the config that was set; if the remote
\* set call failed, nothing else is sent out, the remote status is returned
\* and the display record holds the dimensions it held before.
C21_ActiveConfigDimensions ==
    lastCall.op \in {"setActiveConfig", "setActiveConfigWithConstraints"} =>
        /\ issued[1].fn = lastCall.op
        /\ lastCall.status = StatusOk =>
              /\ lastCall.value.vts.width = lastCall.value.reported.width
              /\ lastCall.value.vts.height = lastCall.value.reported.height
        /\ issued[1].status # StatusOk =>
              /\ Len(issued) = 1
              /\ lastCall.status = issued[1].status
              /\ lastCall.value.vts = HeldDisplay(lastCall.display)

\* C21 witness: a successful setActiveConfig to config 0 on the legacy path,
\* which changed the dimensions the display record held.
C21_Witness ==
    /\ lastCall.op = "setActiveConfig"
    /\ lastCall.status = StatusOk
    /\ lastCall.value.config = 0
    /\ "getDisplayAttribute" \in FnsCalled(issued)
    /\ lastCall.value.vts.width # HeldDisplay(lastCall.display).width

\* C22: in destroyAllLayers an inner iteration that does not return takes one
\* layer from the display the drain is at, and an outer iteration that does
\* not return takes one display from the registry; the drain leaves only by
\* returning true or false, and once entered it always returns.
C22_DrainTerminates ==
    /\ [][/\ (pc = "layers" /\ pc' = "layers") =>
                /\ it' = it
                /\ \A d \in it :
                      Cardinality(LayersOf(Registry', d)) =
                          Cardinality(LayersOf(Registry, d)) - 1
          /\ (pc = "layers" /\ pc' = "drain") =>
                Cardinality(DOMAIN Registry') = Cardinality(DOMAIN Registry) - 1
          /\ (pc \in {"drain", "layers"} /\ pc' = "idle") =>
                lastCall'.op = "tearDown" /\ lastCall'.status \in {"true", "false"}
          /\ pc \in {"drain", "layers"} => pc' \in {"drain", "layers", "idle"}]_vars
    /\ (pc \in {"drain", "layers"}) ~> (pc = "idle")

\* C22 witness: a drain that ran to completion over layers and a virtual
\* display.
C22_Witness ==
    /\ lastCall.op = "tearDown"
    /\ pc = "idle"
    /\ lastCall.status = "true"
    /\ Len(issued) >= 3

\* C23: the polling of getDisplays is left only by a poll that observed a
\* display, which starts the resolving; and when the callback reports a
\* display at some poll and every query returns, getDisplays returns.
C23_DiscoveryReturns ==
    /\ [][pc = "poll" =>
             /\ pc' \in {"poll", "resolve"}
             /\ pc' = "resolve" => displays' # <<>>
             /\ pc' = "poll" => lastCall' = lastCall]_vars
    /\ (pc \in {"poll", "resolve"}) ~> (pc = "idle" /\ lastCall.op = "getDisplays")

\* C23 witness: getDisplays has returned the one display a poll reported.
C23_Witness ==
    /\ lastCall.op = "getDisplays"
    /\ pc = "idle"
    /\ lastCall.status = StatusOk
    /\ Len(lastCall.value) = 1

\* what was sent out to create or destroy a layer
LayerLifecycle(c) ==
    \/ c.kind = "record" /\ c.fn \in {"CREATE", "BUFFER_SLOT_COUNT", "DESTROY"}
    \/ c.kind = "remote" /\ c.fn \in {"createLayer", "destroyLayer"}

\* C24: the batched flag is what the capability list of the constructor says,
\* no step changes it, and whatever any operation (tearDown included) sends
\* out to create or destroy a layer is a record when the flag is set and a
\* remote call when it is not.
C24_BatchedDecidedOnce ==
    [][/\ lastCall.op = "construct" =>
             (mSupportsBatchedCreateLayer
                 <=> LAYER_LIFECYCLE_BATCH_COMMAND \in lastCall.value)
       /\ mSupportsBatchedCreateLayer' = mSupportsBatchedCreateLayer
       /\ \A i \in 1..Len(issued') :
             LayerLifecycle(issued'[i]) =>
                 (issued'[i].kind = "record" <=> mSupportsBatchedCreateLayer)]_vars

\* C24 witness: a tearDown of a batched session that destroyed, by a record, a
\* layer the session had created.
C24_Witness ==
    /\ lastCall.op = "tearDown"
    /\ pc = "idle"
    /\ Batched
    /\ \E i \in 1..Len(issued) :
          issued[i].kind = "record" /\ issued[i].fn = "DESTROY"

\* C25: in batched mode destroyLayer(display, layer) makes no remote call,
\* appends the one DESTROY record of (display, layer), returns success, and
\* leaves the registry as it was on entry but for that layer, which the
\* display no longer owns; so also when the display or the layer was not
\* registered.
C25_BatchedDestroyLayer ==
    (lastCall.op = "destroyLayer" /\ Batched) =>
        /\ issued = <<[kind |-> "record", fn |-> "DESTROY",
                       display |-> lastCall.display, layer |-> lastCall.layer,
                       status |-> "PENDING", arg |-> <<>>]>>
        /\ lastCall.status = StatusOk
        /\ DOMAIN Registry = DOMAIN entry
        /\ \A d \in DOMAIN entry :
              /\ Registry[d].isVirtual = entry[d].isVirtual
              /\ Registry[d].layers =
                    IF d = lastCall.display
                    THEN entry[d].layers \ {lastCall.layer}
                    ELSE entry[d].layers

\* C25 witness: a batched destroyLayer of a layer its display did not own, in
\* a registry where another display owns a layer of that id.
C25_Witness ==
    /\ lastCall.op = "destroyLayer"
    /\ Batched
    /\ lastCall.layer \notin LayersOf(entry, lastCall.display)
    /\ OwnersOf(entry, lastCall.layer) # {}

\* what a step appended to the writer, when the writer it leaves starts with
\* the writer it found
Appended == SubSeq(writer', Len(writer) + 1, Len(writer'))

\* C26: a step of createLayer, destroyLayer or tearDown leaves every record
\* the writer held where it was and calls no executeCommands; in batched mode
\* createLayer appends the CREATE record and then the buffer-slot-count record
\* of the layer it returns, destroyLayer the one DESTROY record of its layer,
\* a step of the drain at most one DESTROY record; in unbatched mode nothing
\* is appended.
C26_WriterAppendOnly ==
    [][lastCall'.op \in {"createLayer", "destroyLayer", "tearDown"} =>
          /\ Len(writer') >= Len(writer)
          /\ SubSeq(writer', 1, Len(writer)) = writer
          /\ "executeCommands" \notin FnsCalled(issued')
          /\ ~Batched => Appended = <<>>
          /\ (Batched /\ lastCall'.op = "createLayer") =>
                /\ Len(Appended) = 2
                /\ Appended[1] = [kind |-> "record", fn |-> "CREATE",
                                  display |-> lastCall'.display,
                                  layer |-> lastCall'.value,
                                  status |-> "PENDING", arg |-> <<>>]
                /\ \E n \in BufferSlotCounts :
                      Appended[2] = [kind |-> "record", fn |-> "BUFFER_SLOT_COUNT",
                                     display |-> lastCall'.display,
                                     layer |-> lastCall'.value,
                                     status |-> "PENDING", arg |-> <<n>>]
          /\ (Batched /\ lastCall'.op = "destroyLayer") =>
                Appended = <<[kind |-> "record", fn |-> "DESTROY",
                              display |-> lastCall'.display,
                              layer |-> lastCall'.layer,
                              status |-> "PENDING", arg |-> <<>>]>>
          /\ (Batched /\ lastCall'.op = "tearDown") =>
                /\ Len(Appended) <= 1
                /\ \A i \in 1..Len(Appended) :
                      /\ Appended[i].kind = "record"
                      /\ Appended[i].fn = "DESTROY"
                      /\ Appended[i].layer \in LayersOf(Registry, Appended[i].display)]_vars

\* C26 witness: a tearDown has returned true with the writer still holding the
\* records of the createLayer before it, followed by the DESTROY records of
\* the drain.
C26_Witness ==
    /\ lastCall.op = "tearDown"
    /\ pc = "idle"
    /\ lastCall.status = "true"
    /\ Len(writer) >= 3
    /\ writer[1].fn = "CREATE"
    /\ writer[2].fn = "BUFFER_SLOT_COUNT"
    /\ writer[Len(writer)].fn = "DESTROY"

\* C27: a createLayer that got as far as registering its layer (batched, or
\* the remote call succeeded) under a display the registry did not hold leaves
\* that display with an entry marked non-virtual whose layers are that layer
\* alone; under a display the registry held it leaves the entry's isVirtual
\* flag as it was; and no other display's entry is touched.
C27_PlaceholderIsPhysical ==
    (/\ lastCall.op = "createLayer"
     /\ (Batched \/ issued[1].status = StatusOk)) =>
        /\ DOMAIN Registry = DOMAIN entry \cup {lastCall.display}
        /\ lastCall.display \notin DOMAIN entry =>
              /\ Registry[lastCall.display] =
                    [isVirtual |-> FALSE, layers |-> {lastCall.value}]
              /\ lastCall.status = StatusOk
        /\ lastCall.display \in DOMAIN entry =>
              Registry[lastCall.display].isVirtual = entry[lastCall.display].isVirtual
        /\ \A d \in DOMAIN entry \ {lastCall.display} : Registry[d] = entry[d]

\* C27 witness: a layer was registered under a display the registry did not
\* hold, while it held a virtual display.
C27_Witness ==
    /\ lastCall.op = "createLayer"
    /\ lastCall.status = StatusOk
    /\ lastCall.display \notin DOMAIN entry
    /\ VirtualDisplays(entry) # {}

\* C28: a destroyLayer that got as far as the removal (batched, or the remote
\* call succeeded) leaves the registry as it was on entry when the display had
\* no entry or did not own the layer, without an entry for the display
\* appearing; otherwise the display's set has lost that layer and nothing else
\* has changed. Removing the same layer again from any registry changes
\* nothing more.
C28_RemoveLayerExact ==
    /\ (/\ lastCall.op = "destroyLayer"
        /\ (Batched \/ issued[1].status = StatusOk)) =>
           IF lastCall.layer \notin LayersOf(entry, lastCall.display)
           THEN Registry = entry
           ELSE /\ DOMAIN Registry = DOMAIN entry
                /\ Registry[lastCall.display] =
                      [isVirtual |-> entry[lastCall.display].isVirtual,
                       layers |-> entry[lastCall.display].layers \ {lastCall.layer}]
                /\ \A d \in DOMAIN entry \ {lastCall.display} :
                      Registry[d] = entry[d]
    /\ \A d \in DisplayIds, l \in LayerIds :
          LET once == removeLayerFromDisplayResources(Registry, d, l)
          IN  removeLayerFromDisplayResources(once, d, l) = once

\* C28 witness: an unbatched destroyLayer succeeded for a display the registry
\* did not hold, the registry holding a layer of that id under another display.
C28_Witness ==
    /\ lastCall.op = "destroyLayer"
    /\ ~Batched
    /\ lastCall.status = StatusOk
    /\ lastCall.display \notin DOMAIN entry
    /\ OwnersOf(entry, lastCall.layer) # {}

\* C29 as stated: only createLayer, destroyLayer and tearDown change the
\* registry.
C29_OnlyLayerOpsAndTearDownMutate ==
    [][Registry' # Registry =>
          lastCall'.op \in {"createLayer", "destroyLayer", "tearDown"}]_vars

\* C29, amended: a step that changes the registry is a step of createLayer,
\* destroyLayer, tearDown, createVirtualDisplay, destroyVirtualDisplay or
\* getDisplays. A step of getDisplays or createVirtualDisplay that changes it
\* adds one entry with no layers, non-virtual from getDisplays and virtual
\* from createVirtualDisplay, and leaves every entry it held as it was; a step
\* of destroyVirtualDisplay that changes it erases the entry of its display
\* and nothing else.
C29_RegistryMutators ==
    [][Registry' # Registry =>
          /\ lastCall'.op \in {"createLayer", "destroyLayer", "tearDown",
                               "createVirtualDisplay", "destroyVirtualDisplay",
                               "getDisplays"}
          /\ lastCall'.op \in {"getDisplays", "createVirtualDisplay"} =>
                /\ \A d \in DOMAIN Registry :
                      d \in DOMAIN Registry' /\ Registry'[d] = Registry[d]
                /\ Cardinality(DOMAIN Registry') = Cardinality(DOMAIN Registry) + 1
                /\ \A d \in DOMAIN Registry' \ DOMAIN Registry :
                      Registry'[d] =
                          [isVirtual |-> lastCall'.op = "createVirtualDisplay",
                           layers |-> {}]
          /\ lastCall'.op = "destroyVirtualDisplay" =>
                /\ DOMAIN Registry' = DOMAIN Registry \ {lastCall'.display}
                /\ \A d \in DOMAIN Registry' : Registry'[d] = Registry[d]]_vars

\* C29 witness: getDisplays has returned with a display added to a registry
\* that held layers.
C29_Witness ==
    /\ lastCall.op = "getDisplays"
    /\ pc = "idle"
    /\ lastCall.status = StatusOk
    /\ DOMAIN Registry # DOMAIN entry
    /\ OwnedLayers(entry) # {}

\* the places in the log of a destroy of (display, layer), in either form
DestroysOf(log, display, layer) ==
    {i \in 1..Len(log) :
        /\ log[i].display = display
        /\ log[i].layer = layer
        /\ \/ log[i].kind = "record" /\ log[i].fn = "DESTROY"
           \/ log[i].kind = "remote" /\ log[i].fn = "destroyLayer"}

\* C30: when tearDown has returned true, each (display, layer) pair the
\* registry held when tearDown was entered has been destroyed once, under that
\* display and in the form the mode uses, and no other pair has been destroyed.
C30_EachLayerDestroyedOnce ==
    (lastCall.op = "tearDown" /\ pc = "idle" /\ lastCall.status = "true") =>
        \A d \in DisplayIds \cup DOMAIN entry, l \in LayerIds :
            /\ Cardinality(DestroysOf(issued, d, l)) =
                  IF l \in LayersOf(entry, d) THEN 1 ELSE 0
            /\ \A i \in DestroysOf(issued, d, l) : IsDestroyOf(issued[i], d, l)

\* C30 witness: a tearDown returned true that was entered with one layer id
\* registered under two displays.
C30_Witness ==
    /\ lastCall.op = "tearDown"
    /\ pc = "idle"
    /\ lastCall.status = "true"
    /\ \E l \in LayerIds : Cardinality(OwnersOf(entry, l)) = 2

\* the virtual displays an operation has destroyed
DestroyedDisplays(log) ==
    {log[i].display : i \in {j \in 1..Len(log) :
                                /\ log[j].fn = "destroyVirtualDisplay"
                                /\ log[j].status = StatusOk}}

\* C31: while the drain runs, the registry holds the displays of the registry
\* at entry but for the physical ones set aside and the virtual ones
\* destroyed. The step on which a destroy fails and the drain returns false
\* leaves that registry as it is: the display the drain is at is in it, with
\* the layer whose destroy failed (unbatched) or as the virtual display whose
\* destroy failed; the displays not visited are as they were at entry; and
\* the displays set aside are not put back.
C31_AbortLeavesUnfinished ==
    [][/\ pc \in {"drain", "layers"} =>
             /\ DOMAIN physicalDisplays \subseteq PhysicalDisplays(entry)
             /\ DOMAIN Registry =
                   DOMAIN entry \ (DOMAIN physicalDisplays \cup DestroyedDisplays(issued))
             /\ \A d \in DestroyedDisplays(issued) : d \in VirtualDisplays(entry)
       /\ (pc = "layers" /\ pc' = "idle") =>
             LET failed == issued'[Len(issued')]
             IN  /\ lastCall'.status = "false"
                 /\ Len(issued') = Len(issued) + 1
                 /\ failed.status \in RemoteErrors
                 /\ failed.display \in it
                 /\ Registry' = Registry
                 /\ failed.display \in DOMAIN Registry'
                 /\ failed.fn = "destroyLayer" =>
                       /\ ~Batched
                       /\ failed.layer \in Registry'[failed.display].layers
                 /\ failed.fn = "destroyVirtualDisplay" =>
                       /\ Registry'[failed.display].isVirtual
                       /\ Registry'[failed.display].layers = {}
                 /\ failed.fn \in {"destroyLayer", "destroyVirtualDisplay"}
                 /\ \A d \in DOMAIN Registry' \ it : Registry'[d] = entry[d]
                 /\ \A d \in DOMAIN physicalDisplays : d \notin DOMAIN Registry'
                 /\ physicalDisplays' = EmptyResources]_vars

\* C31 witness: the drain was aborted by a failed destroy after it had set a
\* physical display aside.
C31_Witness ==
    /\ lastCall.op = "tearDown"
    /\ pc = "idle"
    /\ lastCall.status = "false"
    /\ issued # <<>>
    /\ issued[Len(issued)].status \in RemoteErrors
    /\ PhysicalDisplays(entry) \ DOMAIN Registry # {}

\* C32: throughout a getDisplays, every entry the registry held when it was
\* entered is there as it was, and an entry that was not there is non-virtual,
\* without layers, and of a display the call has resolved; a call all of whose
\* queries succeeded returns success with every display it was given, those
\* that had an entry included.
C32_DiscoveryOnlyAdds ==
    lastCall.op = "getDisplays" =>
        /\ \A d \in DOMAIN entry : d \in DOMAIN Registry /\ Registry[d] = entry[d]
        /\ \A d \in DOMAIN Registry \ DOMAIN entry :
              /\ Registry[d] = [isVirtual |-> FALSE, layers |-> {}]
              /\ \E i \in 1..Len(issued) : issued[i].display = d
        /\ (pc = "idle" /\ \A i \in 1..Len(issued) : issued[i].status = StatusOk) =>
              /\ lastCall.status = StatusOk
              /\ \A i \in 1..Len(lastCall.value) :
                    lastCall.value[i].id \in DOMAIN Registry

\* C32 witness: getDisplays returned success with a display that had an entry
\* owning a layer when it was entered, and with a virtual display registered.
C32_Witness ==
    /\ lastCall.op = "getDisplays"
    /\ pc = "idle"
    /\ lastCall.status = StatusOk
    /\ \E i \in 1..Len(lastCall.value) :
          LayersOf(entry, lastCall.value[i].id) # {}
    /\ VirtualDisplays(entry) # {}

\* the config ids a config-set query was answered with
ConfigsOf(c) == {c.arg[k] : k \in 1..Len(c.arg)}

\* the displays getDisplays has resolved so far, or has returned
ResolvedIds ==
    {vtsDisplays[i].id : i \in 1..Len(vtsDisplays)}
        \cup IF lastCall.op = "getDisplays"
             THEN {lastCall.value[i].id : i \in 1..Len(lastCall.value)}
             ELSE {}

\* C33: where updateDisplayProperties is answered a version of 3 or more, it
\* succeeds exactly when its getDisplayConfigurations query succeeds and
\* answers with the config id among its records; otherwise it returns
\* EX_BAD_CONFIG, leaves the dimensions of the caller's display as they were,
\* and getDisplays returns that status at once without the display in its
\* list or newly in the registry. Where it is answered a lower version, it asks
\* for the two attributes of the config id and succeeds when both queries do.
C33_ActiveConfigAmongConfigs ==
    /\ lastCall.op = "getDisplays" =>
          \A i \in 1..Len(issued) :
             (issued[i].fn = "getActiveConfig" /\ issued[i].status = StatusOk) =>
                LET d == issued[i].display
                    active == issued[i].arg[1]
                IN  /\ issued[i + 1].fn = "getInterfaceVersion"
                    /\ IF issued[i + 1].arg[1] >= ExtendedConfigVersion
                       THEN /\ issued[i + 2].fn = "getDisplayConfigurations"
                            /\ issued[i + 2].display = d
                            /\ IF /\ issued[i + 2].status = StatusOk
                                  /\ active \in ConfigsOf(issued[i + 2])
                               THEN d \in ResolvedIds /\ d \in DOMAIN Registry
                               ELSE /\ pc = "idle"
                                    /\ lastCall.status = EX_BAD_CONFIG
                                    /\ Len(issued) = i + 2
                                    /\ d \notin ResolvedIds
                                    /\ d \in DOMAIN Registry => d \in DOMAIN entry
                       ELSE /\ issued[i + 2].fn = "getDisplayAttribute"
                            /\ issued[i + 2].arg = <<active, "WIDTH">>
                            /\ issued[i + 3].fn = "getDisplayAttribute"
                            /\ issued[i + 3].arg = <<active, "HEIGHT">>
                            /\ (/\ issued[i + 2].status = StatusOk
                                /\ issued[i + 3].status = StatusOk) <=>
                                  d \in ResolvedIds
    /\ (/\ lastCall.op \in {"setActiveConfig", "setActiveConfigWithConstraints"}
        /\ issued[1].status = StatusOk
        /\ issued[2].arg[1] >= ExtendedConfigVersion) =>
           /\ issued[3].fn = "getDisplayConfigurations"
           /\ lastCall.status = StatusOk <=>
                 /\ issued[3].status = StatusOk
                 /\ lastCall.value.config \in ConfigsOf(issued[3])
           /\ lastCall.status # StatusOk =>
                 /\ lastCall.status = EX_BAD_CONFIG
                 /\ lastCall.value.vts = HeldDisplay(lastCall.display)

\* C33 witness: getDisplays returned EX_BAD_CONFIG because the active config
\* the service reported is not among the records its getDisplayConfigurations
\* query, which succeeded, was answered with.
C33_Witness ==
    /\ lastCall.op = "getDisplays"
    /\ pc = "idle"
    /\ lastCall.status = EX_BAD_CONFIG
    /\ issued[Len(issued)].fn = "getDisplayConfigurations"
    /\ issued[Len(issued)].status = StatusOk
    /\ issued[Len(issued) - 2].fn = "getActiveConfig"
    /\ issued[Len(issued) - 2].arg[1] \notin ConfigsOf(issued[Len(issued)])
    /\ issued[Len(issued)].display \notin DOMAIN Registry

\* the configs of a display in the config group of one of them
GroupOf(vts, config) ==
    {c \in DOMAIN vts.configs :
        vts.configs[c].configGroup = vts.configs[config].configGroup}

\* C34: the config setPeakRefreshRateConfig asks setActiveConfig for is a
\* config of the display, of the config group of the config the service holds
\* as active, and no config of that group has a smaller vsync period; it is
\* the active config when no config of the group has a smaller vsync period
\* than the active config has.
C34_PeakOfActiveGroup ==
    (lastCall.op = "setPeakRefreshRateConfig" /\ pc = "idle") =>
        LET vts == lastCall.value.vts
            current == lastCall.value.current
            requested == lastCall.value.requested
        IN  /\ requested \in GroupOf(vts, current)
            /\ \A c \in GroupOf(vts, current) :
                  vts.configs[requested].vsyncPeriod <= vts.configs[c].vsyncPeriod
            /\ (\A c \in GroupOf(vts, current) :
                    vts.configs[current].vsyncPeriod <= vts.configs[c].vsyncPeriod)
                  => requested = current

\* the same for the calls whose getActiveConfig succeeded
PeakOfActiveGroupWhenAnswered ==
    (lastCall.op = "setPeakRefreshRateConfig" /\ issued[1].status = StatusOk)
        => C34_PeakOfActiveGroup

====
